---- MODULE Spec2Model ----
(***************************************************************************)
(* Personal Finance Chatbot (src/main.py): the two remote-call clients     *)
(* call_hf_inference and call_watson_assistant, generate_budget_summary    *)
(* and the "Get Answer" handler that dispatches to one client.             *)
(*                                                                         *)
(* Python strings are sequences of one-character strings, so that prefix,  *)
(* substring, join and serialisation are computed, not assumed.  Python    *)
(* values (decoded JSON) are records of one shape, PyVal.  An operation    *)
(* that may raise yields a PyResult: a value or a raised exception.        *)
(* Each network call is one step; the remote service chooses its outcome.  *)
(***************************************************************************)
EXTENDS Integers, Sequences, FiniteSets, TLC

VARIABLES
    cfg,             \* environment configuration, lines 23-27
    user_q,          \* text area content, line 125
    persona,         \* sidebar radio, line 118
    backend,         \* sidebar selectbox, line 117
    income,          \* number input (rupees), line 129
    essentials_pct,  \* percent; argument of generate_budget_summary
    savings_pct,     \* percent; argument of generate_budget_summary
    pc,              \* position of the running handler
    prompt,          \* the prompt built at lines 138-140
    invoked,         \* client functions invoked by the current click
    netlog,          \* network calls issued by the current click, in order
    session_id,      \* local of call_watson_assistant, line 66
    out,             \* local of call_watson_assistant, line 72
    result,          \* value returned by the client
    summary,         \* last value of generate_budget_summary
    shown            \* what the page shows after the click

vars == <<cfg, user_q, persona, backend, income, essentials_pct, savings_pct,
          pc, prompt, invoked, netlog, session_id, out, result, summary, shown>>

(***************************************************************************)
(* Bounds                                                                  *)
(***************************************************************************)
MaxGeneric == 2

MaxIncomeSteps == 30

MaxPctSteps == 24

IncomeStep == 1000

DefaultEssentialsPct == 50

DefaultSavingsPct == 20

(***************************************************************************)
(* Python values                                                           *)
(***************************************************************************)
PyNone == [k |-> "None", s |-> <<>>, n |-> 0, items |-> <<>>]

PyStr(chars) == [k |-> "str", s |-> chars, n |-> 0, items |-> <<>>]

PyInt(i) == [k |-> "int", s |-> <<>>, n |-> i, items |-> <<>>]

KV(key, val) == [key |-> key, val |-> val]

PyDict(kvs) == [k |-> "dict", s |-> <<>>, n |-> 0, items |-> kvs]

PyList(vals) ==
    [k |-> "list", s |-> <<>>, n |-> 0,
     items |-> [i \in 1..Len(vals) |-> KV(<<>>, vals[i])]]

Ok(v) == [ok |-> TRUE, val |-> v, cls |-> "", msg |-> <<>>]

Raise(cls, msg) == [ok |-> FALSE, val |-> PyNone, cls |-> cls, msg |-> msg]

(***************************************************************************)
(* String literals of the source                                           *)
(***************************************************************************)
HF_TOKEN_NOT_SET == <<"E", "R", "R", "O", "R", ":", " ", "H", "U", "G", "G", "I", "N", "G", "F", "A", "C", "E", " ", "A", "P", "I", " ", "t", "o", "k", "e", "n", " ", "n", "o", "t", " ", "s", "e", "t", ".">>

HF_EXCEPTION_PREFIX == <<"E", "x", "c", "e", "p", "t", "i", "o", "n", " ", "c", "a", "l", "l", "i", "n", "g", " ", "H", "u", "g", "g", "i", "n", "g", " ", "F", "a", "c", "e", " ", "I", "n", "f", "e", "r", "e", "n", "c", "e", " ", "A", "P", "I", ":", " ">>

WATSON_NOT_CONFIGURED == <<"W", "a", "t", "s", "o", "n", " ", "n", "o", "t", " ", "c", "o", "n", "f", "i", "g", "u", "r", "e", "d", ".">>

WATSON_EXCEPTION_PREFIX == <<"E", "x", "c", "e", "p", "t", "i", "o", "n", " ", "c", "a", "l", "l", "i", "n", "g", " ", "W", "a", "t", "s", "o", "n", " ", "A", "s", "s", "i", "s", "t", "a", "n", "t", ":", " ">>

JOIN_SEPARATOR == <<"\\", "n">>

GENERATED_TEXT == <<"g", "e", "n", "e", "r", "a", "t", "e", "d", "_", "t", "e", "x", "t">>

SESSION_ID == <<"s", "e", "s", "s", "i", "o", "n", "_", "i", "d">>

OUTPUT == <<"o", "u", "t", "p", "u", "t">>

GENERIC == <<"g", "e", "n", "e", "r", "i", "c">>

RESPONSE_TYPE == <<"r", "e", "s", "p", "o", "n", "s", "e", "_", "t", "y", "p", "e">>

TEXT == <<"t", "e", "x", "t">>

(***************************************************************************)
(* Python built-ins used by the source                                     *)
(***************************************************************************)
IsPrefix(p, s) == Len(p) <= Len(s) /\ SubSeq(s, 1, Len(p)) = p

IsSubstring(p, s) ==
    \E i \in 0..(Len(s) - Len(p)) : SubSeq(s, i + 1, i + Len(p)) = p

HasKey(d, key) == \E i \in 1..Len(d.items) : d.items[i].key = key

Lookup(d, key) ==
    d.items[CHOOSE i \in 1..Len(d.items) : d.items[i].key = key].val

\* Python `key in x`
Contains(x, key) ==
    CASE x.k = "dict" -> Ok(HasKey(x, key))
      [] x.k = "str"  -> Ok(IsSubstring(key, x.s))
      [] x.k = "list" -> Ok(\E i \in 1..Len(x.items) : x.items[i].val = PyStr(key))
      [] OTHER        -> Raise("TypeError", <<"a", "r", "g", "u", "m", "e", "n", "t", " ", "i", "s", " ", "n", "o", "t", " ", "i", "t", "e", "r", "a", "b", "l", "e">>)

\* Python `x[key]` with a string key
GetItem(x, key) ==
    CASE x.k = "dict" /\ HasKey(x, key)  -> Ok(Lookup(x, key))
      [] x.k = "dict" /\ ~HasKey(x, key) -> Raise("KeyError", key)
      [] OTHER -> Raise("TypeError", <<"i", "n", "d", "i", "c", "e", "s", " ", "m", "u", "s", "t", " ", "b", "e", " ", "i", "n", "t", "e", "g", "e", "r", "s">>)

\* Python `x.get(key, default)`
Get(x, key, default) ==
    IF x.k = "dict"
    THEN Ok(IF HasKey(x, key) THEN Lookup(x, key) ELSE default)
    ELSE Raise("AttributeError", <<"o", "b", "j", "e", "c", "t", " ", "h", "a", "s", " ", "n", "o", " ", "a", "t", "t", "r", "i", "b", "u", "t", "e", " ", "'", "g", "e", "t", "'">>)

\* Python `for r in x`: the sequence of values iterated, or TypeError
Iter(x) ==
    CASE x.k = "list" -> Ok(PyList([i \in 1..Len(x.items) |-> x.items[i].val]))
      [] x.k = "dict" -> Ok(PyList([i \in 1..Len(x.items) |-> PyStr(x.items[i].key)]))
      [] x.k = "str"  -> Ok(PyList([i \in 1..Len(x.s) |-> PyStr(<<x.s[i]>>)]))
      [] OTHER        -> Raise("TypeError", <<"o", "b", "j", "e", "c", "t", " ", "i", "s", " ", "n", "o", "t", " ", "i", "t", "e", "r", "a", "b", "l", "e">>)

RECURSIVE Join(_, _)
\* Python `sep.join(parts)` for parts that are all strings
Join(sep, parts) ==
    IF parts = <<>> THEN <<>>
    ELSE IF Len(parts) = 1 THEN parts[1]
    ELSE parts[1] \o sep \o Join(sep, Tail(parts))

Digit(d) == <<"0", "1", "2", "3", "4", "5", "6", "7", "8", "9">>[d + 1]

RECURSIVE NatToStr(_)
NatToStr(i) ==
    IF i < 10 THEN <<Digit(i)>> ELSE NatToStr(i \div 10) \o <<Digit(i % 10)>>

IntToStr(i) == IF i < 0 THEN <<"-">> \o NatToStr(-i) ELSE NatToStr(i)

RECURSIVE json_dumps(_)
\* json.dumps with its default separators; the bodies drawn below hold no
\* character that json.dumps would escape
json_dumps(v) ==
    CASE v.k = "None" -> <<"n", "u", "l", "l">>
      [] v.k = "int"  -> IntToStr(v.n)
      [] v.k = "str"  -> <<"\"">> \o v.s \o <<"\"">>
      [] v.k = "list" ->
           <<"[">> \o Join(<<",", " ">>, [i \in 1..Len(v.items) |-> json_dumps(v.items[i].val)])
                   \o <<"]">>
      [] v.k = "dict" ->
           <<"{">> \o Join(<<",", " ">>,
                          [i \in 1..Len(v.items) |->
                              <<"\"">> \o v.items[i].key \o <<"\"", ":", " ">>
                                       \o json_dumps(v.items[i].val)])
                   \o <<"}">>

RECURSIVE lstrip(_)
lstrip(s) == IF s # <<>> /\ Head(s) \in {" ", "\n", "\t"} THEN lstrip(Tail(s)) ELSE s

RECURSIVE rstrip(_)
rstrip(s) ==
    IF s # <<>> /\ s[Len(s)] \in {" ", "\n", "\t"}
    THEN rstrip(SubSeq(s, 1, Len(s) - 1)) ELSE s

\* str.strip()
strip(s) == rstrip(lstrip(s))

\* truth value of an environment variable: None and "" are false
Truthy(v) == v.k = "str" /\ v.s # <<>>

(***************************************************************************)
(* Outcomes of one HTTP exchange, chosen by the network and the service    *)
(***************************************************************************)
Resp(kind, body) == [kind |-> kind, body |-> body]

\* requests.post / requests.delete: raises when no response arrives
requests_send(r) ==
    CASE r.kind = "connection_error" -> Raise("ConnectionError", <<"c", "o", "n", "n", "e", "c", "t", "i", "o", "n", " ", "f", "a", "i", "l", "e", "d">>)
      [] r.kind = "timeout"          -> Raise("Timeout", <<"r", "e", "a", "d", " ", "t", "i", "m", "e", "d", " ", "o", "u", "t">>)
      [] OTHER                       -> Ok(PyNone)

\* Response.raise_for_status()
raise_for_status(r) ==
    IF r.kind = "http_error" THEN Raise("HTTPError", <<"5", "0", "0", " ", "S", "e", "r", "v", "e", "r", " ", "E", "r", "r", "o", "r">>) ELSE Ok(PyNone)

\* Response.json()
response_json(r) ==
    IF r.kind = "invalid_json" THEN Raise("JSONDecodeError", <<"E", "x", "p", "e", "c", "t", "i", "n", "g", " ", "v", "a", "l", "u", "e">>)
    ELSE Ok(r.body)

\* requests.post(...); raise_for_status(); .json()
post_json(r) ==
    LET sent == requests_send(r)
        status == raise_for_status(r)
    IN  IF ~sent.ok THEN sent
        ELSE IF ~status.ok THEN status
        ELSE response_json(r)

\* faulty variant: `except requests.RequestException`
except_RequestException(res, prefix) ==
    IF res.ok \/ res.cls \notin {"ConnectionError", "Timeout", "HTTPError"} THEN res
    ELSE Ok(PyStr(prefix \o res.msg))

\* `except Exception as e: return f"{prefix}{str(e)}"`
except_Exception(res, prefix) ==
    IF res.ok THEN res ELSE Ok(PyStr(prefix \o res.msg))

\* faulty variant: the DELETE is not wrapped in its own try
no_inner_try(res) == res

\* `try: ... except: pass`
except_pass(res) == Ok(PyNone)

(***************************************************************************)
(* call_hf_inference                                                       *)
(***************************************************************************)
\* faulty variant: `if HUGGINGFACE_API_TOKEN is None`
hf_token_not_None(c) == c.hf_token # PyNone

hf_token_set(c) == Truthy(c.hf_token)

extract_generated_text(data) ==
    LET first == data.items[1].val
        inFirst == Contains(first, GENERATED_TEXT)
        fallback ==
            IF data.k = "dict" /\ HasKey(data, GENERATED_TEXT)
            THEN Ok(Lookup(data, GENERATED_TEXT))
            ELSE Ok(PyStr(json_dumps(data)))
    IN  IF data.k = "list" /\ Len(data.items) > 0
        THEN IF ~inFirst.ok THEN inFirst
             ELSE IF inFirst.val THEN GetItem(first, GENERATED_TEXT)
             ELSE fallback
        ELSE fallback

hf_request(r) ==
    LET data == post_json(r)
    IN  except_Exception(IF data.ok THEN extract_generated_text(data.val) ELSE data,
                         HF_EXCEPTION_PREFIX)

(***************************************************************************)
(* call_watson_assistant                                                   *)
(***************************************************************************)
\* faulty variant: `or` in place of `and`
watson_any_configured(c) ==
    Truthy(c.watson_apikey) \/ Truthy(c.watson_url) \/ Truthy(c.watson_assistant_id)

watson_configured(c) ==
    Truthy(c.watson_apikey) /\ Truthy(c.watson_url) /\ Truthy(c.watson_assistant_id)

\* faulty variant: a failed session creation is swallowed
watson_create_swallowing(r) ==
    LET body == post_json(r)
    IN  IF body.ok /\ body.val.k = "dict" THEN Get(body.val, SESSION_ID, PyNone)
        ELSE Ok(PyNone)

watson_create(r) ==
    LET body == post_json(r)
    IN  IF body.ok THEN Get(body.val, SESSION_ID, PyNone) ELSE body

watson_message(r) == post_json(r)

watson_teardown(r) == except_pass(requests_send(r))

RECURSIVE collect_texts(_, _)
\* the loop of lines 80-82 over the iterated values rs, texts so far in acc
collect_texts(rs, acc) ==
    IF rs = <<>> THEN Ok(PyList(acc))
    ELSE LET r == Head(rs)
             rt == Get(r, RESPONSE_TYPE, PyNone)
         IN  IF ~rt.ok THEN rt
             ELSE IF rt.val = PyStr(TEXT)
                  THEN collect_texts(Tail(rs), Append(acc, Get(r, TEXT, PyStr(<<>>)).val))
                  ELSE collect_texts(Tail(rs), acc)

Vals(l) == [i \in 1..Len(l.items) |-> l.items[i].val]

\* str.join raises TypeError on an item that is not a string
str_join(sep, texts) ==
    IF \A i \in 1..Len(texts) : texts[i].k = "str"
    THEN Ok(PyStr(Join(sep, [i \in 1..Len(texts) |-> texts[i].s])))
    ELSE Raise("TypeError", <<"s", "e", "q", "u", "e", "n", "c", "e", " ", "i", "t", "e", "m", ":", " ", "e", "x", "p", "e", "c", "t", "e", "d", " ", "s", "t", "r", " ", "i", "n", "s", "t", "a", "n", "c", "e">>)

watson_reply(o) ==
    LET output == Get(o, OUTPUT, PyDict(<<>>))
        generic == Get(output.val, GENERIC, PyList(<<>>))
        rs == Iter(generic.val)
        texts == collect_texts(Vals(rs.val), <<>>)
    IN  IF ~output.ok THEN output
        ELSE IF ~generic.ok THEN generic
        ELSE IF ~rs.ok THEN rs
        ELSE IF ~texts.ok THEN texts
        ELSE IF Vals(texts.val) # <<>> THEN str_join(JOIN_SEPARATOR, Vals(texts.val))
        ELSE Ok(PyStr(json_dumps(o)))

(***************************************************************************)
(* generate_budget_summary and build_prompt                                *)
(***************************************************************************)
NoSummary == [present |-> FALSE, income |-> 0, essentials |-> 0, savings |-> 0,
              discretionary |-> 0]

\* faulty variant: discretionary clamped at zero
generate_budget_summary_clamped(inc, epct, spct) ==
    LET essentials == inc * epct
        savings == inc * spct
        rest == inc * 100 - essentials - savings
    IN  [present |-> TRUE, income |-> inc * 100, essentials |-> essentials,
         savings |-> savings, discretionary |-> IF rest < 0 THEN 0 ELSE rest]

\* income in rupees, fractions in percent, amounts in hundredths of a rupee
\* (the two decimals the summary prints)
generate_budget_summary(inc, epct, spct) ==
    LET essentials == inc * epct
        savings == inc * spct
        discretionary == inc * 100 - essentials - savings
    IN  [present |-> TRUE, income |-> inc * 100, essentials |-> essentials,
         savings |-> savings, discretionary |-> discretionary]

NoPrompt == [question |-> <<>>, style |-> "", budget |-> NoSummary]

\* the prompt's parts; the fixed wording around them is left out
build_prompt(user_question, p) ==
    [question |-> user_question,
     style |-> IF p = "student" THEN "student" ELSE "professional",
     budget |-> NoSummary]

(***************************************************************************)
(* Inputs                                                                  *)
(***************************************************************************)
EnvValues == {PyNone, PyStr(<<>>), PyStr(<<"v">>)}

Configs ==
    [hf_token : EnvValues, watson_apikey : EnvValues, watson_url : EnvValues,
     watson_assistant_id : EnvValues]

Questions == {<<>>, <<" ", "\n">>, <<"s", "i", "p", "?">>}

Personas == {"student", "professional"}

BACKEND_GRANITE == <<"G", "r", "a", "n", "i", "t", "e", " ", "(", "H", "u", "g", "g", "i", "n", "g", "F", "a", "c", "e", " ", "I", "n", "f", "e", "r", "e", "n", "c", "e", " ", "A", "P", "I", ")">>

BACKEND_WATSON == <<"I", "B", "M", " ", "W", "a", "t", "s", "o", "n", " ", "A", "s", "s", "i", "s", "t", "a", "n", "t">>

Backends == {BACKEND_GRANITE, BACKEND_WATSON}

UIIncomes == {0, IncomeStep, 30 * IncomeStep}

Incomes == {i * IncomeStep : i \in 0..MaxIncomeSteps}

Pcts == {5 * i : i \in 0..MaxPctSteps}

FailKinds == {"connection_error", "timeout", "http_error", "invalid_json"}

Failures == {Resp(kind, PyNone) : kind \in FailKinds}

HFBodies ==
    { PyList(<<PyDict(<<KV(GENERATED_TEXT, PyStr(<<"h", "i">>))>>)>>),
      PyList(<<PyDict(<<KV(GENERATED_TEXT, PyStr(<<"h", "i">>))>>),
               PyDict(<<KV(GENERATED_TEXT, PyStr(<<"y", "o">>))>>)>>),
      PyList(<<PyDict(<<KV(GENERATED_TEXT, PyInt(5))>>)>>),
      PyDict(<<KV(GENERATED_TEXT, PyStr(<<"h", "i">>))>>),
      PyList(<<>>),
      PyList(<<PyDict(<<KV(<<"e", "r", "r", "o", "r">>, PyStr(<<"b", "u", "s", "y">>))>>)>>),
      PyList(<<PyInt(5)>>),
      PyList(<<PyNone>>),
      PyList(<<PyStr(<<"a", "b", "c">>)>>),
      PyList(<<PyStr(<<"a", " ", "g", "e", "n", "e", "r", "a", "t", "e", "d", "_", "t", "e", "x", "t">>)>>),
      PyList(<<PyList(<<PyStr(GENERATED_TEXT)>>)>>),
      PyDict(<<KV(<<"e", "r", "r", "o", "r">>, PyStr(<<"b", "u", "s", "y">>))>>),
      PyInt(5),
      PyStr(<<"h", "i">>),
      PyNone }

HFResponses == Failures \cup {Resp("ok", b) : b \in HFBodies}

SessionBodies ==
    { PyDict(<<KV(SESSION_ID, PyStr(<<"s", "1">>))>>),
      PyDict(<<>>),
      PyList(<<PyStr(<<"s", "1">>)>>),
      PyNone }

SessionResponses == Failures \cup {Resp("ok", b) : b \in SessionBodies}

TextEntry(t) == PyDict(<<KV(RESPONSE_TYPE, PyStr(TEXT)), KV(TEXT, t)>>)

GenericEntries ==
    { TextEntry(PyStr(<<"a">>)),
      TextEntry(PyStr(<<"b">>)),
      PyDict(<<KV(RESPONSE_TYPE, PyStr(TEXT))>>),
      PyDict(<<KV(RESPONSE_TYPE, PyStr(<<"o", "p", "t", "i", "o", "n">>)), KV(TEXT, PyStr(<<"c">>))>>),
      TextEntry(PyInt(7)),
      PyStr(<<"x">>) }

GenericLists == UNION {[1..n -> GenericEntries] : n \in 0..MaxGeneric}

Reply(generic) == PyDict(<<KV(OUTPUT, PyDict(<<KV(GENERIC, generic)>>))>>)

MessageBodies ==
    {Reply(PyList(l)) : l \in GenericLists} \cup
    { Reply(PyStr(<<"h", "i">>)), Reply(PyInt(5)), Reply(PyDict(<<KV(TEXT, PyStr(<<"a">>))>>)),
      PyDict(<<KV(OUTPUT, PyNone)>>),
      PyDict(<<KV(OUTPUT, PyDict(<<>>))>>),
      PyDict(<<>>),
      PyList(<<>>),
      PyNone }

MessageResponses == Failures \cup {Resp("ok", b) : b \in MessageBodies}

DeleteResponses ==
    {Resp(kind, PyNone) : kind \in {"ok", "http_error", "connection_error", "timeout"}}

(***************************************************************************)
(* The page: one click of "Get Answer" runs the handler of lines 133-154   *)
(***************************************************************************)
NothingShown == [warning |-> FALSE, heading |-> "", response |-> PyNone,
                 budget |-> NoSummary]

NoneInvoked == [hf |-> 0, watson |-> 0]

\* one network call: the operation, the session in its URL, the outcome
Call(op, sid, r) == [op |-> op, sid |-> sid, kind |-> r.kind, body |-> r.body]

Init ==
    /\ cfg \in Configs
    /\ user_q = <<>>
    /\ persona = "student"
    /\ backend = BACKEND_GRANITE
    /\ income = 0
    /\ essentials_pct = DefaultEssentialsPct
    /\ savings_pct = DefaultSavingsPct
    /\ pc = "idle"
    /\ prompt = NoPrompt
    /\ invoked = NoneInvoked
    /\ netlog = <<>>
    /\ session_id = PyNone
    /\ out = PyNone
    /\ result = PyNone
    /\ summary = NoSummary
    /\ shown = NothingShown

\* a client returns res to the handler, or its exception propagates
\* faulty variant: the selection is ignored
selects_granite_always(b) == TRUE

\* line 142: backend.startswith("Granite")
selects_granite(b) == IsPrefix(<<"G", "r", "a", "n", "i", "t", "e">>, b)

Return(res) ==
    IF res.ok THEN pc' = "write" /\ result' = res.val
    ELSE pc' = "raised" /\ result' = PyNone

\* lines 133-147: the click, up to the call of the selected client
get_answer ==
    /\ pc \in {"idle", "done", "raised"}
    /\ \E q \in Questions, p \in Personas, b \in Backends, inc \in UIIncomes :
        /\ user_q' = q
        /\ persona' = p
        /\ backend' = b
        /\ income' = inc
        /\ netlog' = <<>>
        /\ session_id' = PyNone
        /\ out' = PyNone
        /\ result' = PyNone
        /\ IF strip(q) = <<>>
           THEN /\ shown' = [NothingShown EXCEPT !.warning = TRUE]
                /\ prompt' = NoPrompt
                /\ summary' = NoSummary
                /\ invoked' = NoneInvoked
                /\ pc' = "done"
           ELSE /\ shown' = NothingShown
                /\ summary' = IF inc > 0
                              THEN generate_budget_summary(inc, essentials_pct, savings_pct)
                              ELSE NoSummary
                /\ prompt' = [build_prompt(q, p) EXCEPT !.budget = summary']
                /\ IF selects_granite(b)
                   THEN /\ invoked' = [NoneInvoked EXCEPT !.hf = @ + 1]
                        /\ pc' = "call_hf_inference"
                   ELSE /\ invoked' = [NoneInvoked EXCEPT !.watson = @ + 1]
                        /\ pc' = "call_watson_assistant"
    /\ UNCHANGED <<cfg, essentials_pct, savings_pct>>

\* lines 30-33: entry of call_hf_inference
call_hf_inference ==
    /\ pc = "call_hf_inference"
    /\ IF ~hf_token_set(cfg)
       THEN Return(Ok(PyStr(HF_TOKEN_NOT_SET)))
       ELSE pc' = "hf_post" /\ UNCHANGED result
    /\ UNCHANGED <<cfg, user_q, persona, backend, income, essentials_pct, savings_pct,
                   prompt, invoked, netlog, session_id, out, summary, shown>>

\* lines 41-53: the POST and the parsing of its response
hf_post ==
    /\ pc = "hf_post"
    /\ \E r \in HFResponses :
        /\ netlog' = Append(netlog, Call("hf_post", PyNone, r))
        /\ Return(hf_request(r))
    /\ UNCHANGED <<cfg, user_q, persona, backend, income, essentials_pct, savings_pct,
                   prompt, invoked, session_id, out, summary, shown>>

\* lines 56-58: entry of call_watson_assistant
call_watson_assistant ==
    /\ pc = "call_watson_assistant"
    /\ IF ~watson_configured(cfg)
       THEN Return(Ok(PyStr(WATSON_NOT_CONFIGURED)))
       ELSE pc' = "watson_create" /\ UNCHANGED result
    /\ UNCHANGED <<cfg, user_q, persona, backend, income, essentials_pct, savings_pct,
                   prompt, invoked, netlog, session_id, out, summary, shown>>

\* lines 63-66 (and 84-85 when they raise)
watson_create_session ==
    /\ pc = "watson_create"
    /\ \E r \in SessionResponses :
        LET sid == watson_create(r)
        IN  /\ netlog' = Append(netlog, Call("create", PyNone, r))
            /\ IF sid.ok
               THEN session_id' = sid.val /\ pc' = "watson_message" /\ UNCHANGED result
               ELSE /\ Return(except_Exception(sid, WATSON_EXCEPTION_PREFIX))
                    /\ UNCHANGED session_id
    /\ UNCHANGED <<cfg, user_q, persona, backend, income, essentials_pct, savings_pct,
                   prompt, invoked, out, summary, shown>>

\* lines 68-72 (and 84-85 when they raise)
watson_send_message ==
    /\ pc = "watson_message"
    /\ \E r \in MessageResponses :
        LET body == watson_message(r)
        IN  /\ netlog' = Append(netlog, Call("message", session_id, r))
            /\ IF body.ok
               THEN out' = body.val /\ pc' = "watson_delete" /\ UNCHANGED result
               ELSE /\ Return(except_Exception(body, WATSON_EXCEPTION_PREFIX))
                    /\ UNCHANGED out
    /\ UNCHANGED <<cfg, user_q, persona, backend, income, essentials_pct, savings_pct,
                   prompt, invoked, session_id, summary, shown>>

\* lines 73-85: the DELETE, then the reply text
watson_delete_session ==
    /\ pc = "watson_delete"
    /\ \E r \in DeleteResponses :
        LET torn == watson_teardown(r)
        IN  /\ netlog' = Append(netlog, Call("delete", session_id, r))
            /\ Return(except_Exception(IF torn.ok THEN watson_reply(out) ELSE torn,
                                       WATSON_EXCEPTION_PREFIX))
    /\ UNCHANGED <<cfg, user_q, persona, backend, income, essentials_pct, savings_pct,
                   prompt, invoked, session_id, out, summary, shown>>

\* lines 144-154: the response is written, then the local budget summary
write_response ==
    /\ pc = "write"
    /\ summary' = IF income > 0
                  THEN generate_budget_summary(income, essentials_pct, savings_pct)
                  ELSE summary
    /\ shown' = [warning |-> FALSE,
                 heading |-> IF selects_granite(backend) THEN "Granite" ELSE "Watson",
                 response |-> result,
                 budget |-> IF income > 0 THEN summary' ELSE NoSummary]
    /\ pc' = "done"
    /\ UNCHANGED <<cfg, user_q, persona, backend, income, essentials_pct, savings_pct,
                   prompt, invoked, netlog, session_id, out, result>>

Next ==
    \/ get_answer
    \/ call_hf_inference
    \/ hf_post
    \/ call_watson_assistant
    \/ watson_create_session
    \/ watson_send_message
    \/ watson_delete_session
    \/ write_response

Spec == Init /\ [][Next]_vars

(***************************************************************************)
(* generate_budget_summary called directly, with any fractions             *)
(***************************************************************************)
InitBudget ==
    /\ cfg = [hf_token |-> PyNone, watson_apikey |-> PyNone, watson_url |-> PyNone,
              watson_assistant_id |-> PyNone]
    /\ user_q = <<>>
    /\ persona = "student"
    /\ backend = BACKEND_GRANITE
    /\ income \in Incomes
    /\ essentials_pct \in Pcts
    /\ savings_pct \in Pcts
    /\ pc = "budget_call"
    /\ prompt = NoPrompt
    /\ invoked = NoneInvoked
    /\ netlog = <<>>
    /\ session_id = PyNone
    /\ out = PyNone
    /\ result = PyNone
    /\ summary = NoSummary
    /\ shown = NothingShown

\* lines 98-108
budget_call ==
    /\ pc = "budget_call"
    /\ summary' = generate_budget_summary(income, essentials_pct, savings_pct)
    /\ pc' = "budget_done"
    /\ UNCHANGED <<cfg, user_q, persona, backend, income, essentials_pct, savings_pct,
                   prompt, invoked, netlog, session_id, out, result, shown>>

NextBudget == budget_call

SpecBudget == InitBudget /\ [][NextBudget]_vars

(***************************************************************************)
(* Properties                                                              *)
(***************************************************************************)
Ops == [i \in 1..Len(netlog) |-> netlog[i].op]

ClientInvoked == invoked.hf + invoked.watson > 0

\* the client invoked by the current click has returned to the handler
Returned == ClientInvoked /\ pc \in {"write", "done"}

Missing(v) == v = PyNone \/ v = PyStr(<<>>)

IsBlank(q) == \A i \in 1..Len(q) : q[i] \in {" ", "\n", "\t"}

ErrorText(v) == v.k = "str" /\ IsPrefix(<<"E", "x", "c", "e", "p", "t", "i", "o", "n", " ", "c", "a", "l", "l", "i", "n", "g">>, v.s)

\* the network call c raised inside the client: no response, an error status
\* checked by raise_for_status, or a body that does not decode.  The DELETE
\* is not followed by raise_for_status or json().
StepRaised(c) ==
    IF c.op = "delete" THEN c.kind \in {"connection_error", "timeout"}
    ELSE c.kind \in FailKinds

\* the session POST was answered 2xx with a JSON object
CreateSucceeded(c) == c.op = "create" /\ c.kind = "ok" /\ c.body.k = "dict"

\* C1 as stated: no exception reaches the handler, and whenever any network
\* step of the call raised (the DELETE included) the returned value is a
\* string starting with "Exception calling".
C1_AnyRaisingStepYieldsErrorText ==
    /\ pc # "raised"
    /\ Returned /\ (\E i \in 1..Len(netlog) : StepRaised(netlog[i])) => ErrorText(result)

\* C1 amended: no exception reaches the handler; whenever the Hugging Face
\* POST, the session POST or the message POST raised, the returned value is a
\* string starting with "Exception calling"; a DELETE that raises is
\* swallowed and the value is returned as if it had not raised.
C1_NeverRaises ==
    /\ pc # "raised"
    /\ Returned /\ (\E i \in 1..Len(netlog) :
                        netlog[i].op # "delete" /\ StepRaised(netlog[i]))
         => ErrorText(result)
    /\ Returned /\ Len(netlog) = 3 /\ StepRaised(netlog[3])
         => result = except_Exception(watson_reply(out), WATSON_EXCEPTION_PREFIX).val

C1_Witness ==
    /\ pc = "done"
    /\ invoked.watson = 1
    /\ Len(netlog) = 2
    /\ netlog[2].kind = "invalid_json"
    /\ ErrorText(shown.response)

\* the session POST returned a session: 2xx with an object holding session_id
SessionCreated(c) == CreateSucceeded(c) /\ HasKey(c.body, SESSION_ID)

\* C2: the Watson network calls are a prefix of create, message, delete (so
\* each at most once, in that order); the message POST is issued only after
\* a successful session creation; a failed session creation is the only
\* call, and the client returns the error text.
C2_CallOrder ==
    /\ invoked.watson = 0 => \A i \in 1..Len(netlog) : netlog[i].op = "hf_post"
    /\ invoked.watson > 0 =>
        /\ Ops \in {<<>>, <<"create">>, <<"create", "message">>,
                    <<"create", "message", "delete">>}
        /\ Len(netlog) >= 2 => CreateSucceeded(netlog[1])
        /\ Len(netlog) >= 1 /\ ~CreateSucceeded(netlog[1]) =>
              /\ Len(netlog) = 1
              /\ Returned
              /\ result.k = "str" /\ IsPrefix(WATSON_EXCEPTION_PREFIX, result.s)

C2_Witness ==
    /\ pc = "done"
    /\ Ops = <<"create">>
    /\ netlog[1].kind = "http_error"
    /\ IsPrefix(WATSON_EXCEPTION_PREFIX, result.s)

\* C3: when call_watson_assistant has returned and its session POST
\* succeeded, a DELETE for that session was attempted, also when the message
\* step failed.
C3_SessionTornDown ==
    Returned /\ Len(netlog) >= 1 /\ SessionCreated(netlog[1])
       => \E j \in 1..Len(netlog) : netlog[j].op = "delete" /\ netlog[j].sid = session_id

\* C4: with any of the three Watson settings missing or empty,
\* call_watson_assistant issues no network call and returns exactly
\* "Watson not configured."
C4_NotConfigured ==
    /\ invoked.watson > 0
    /\ Missing(cfg.watson_apikey) \/ Missing(cfg.watson_url)
         \/ Missing(cfg.watson_assistant_id)
    => /\ netlog = <<>>
       /\ pc \in {"call_watson_assistant", "write", "done"}
       /\ Returned => result = PyStr(WATSON_NOT_CONFIGURED)

C4_Witness ==
    /\ pc = "done"
    /\ invoked.watson = 1
    /\ cfg.watson_apikey = PyStr(<<"v">>)
    /\ cfg.watson_url = PyStr(<<>>)
    /\ cfg.watson_assistant_id = PyStr(<<"v">>)
    /\ shown.response = PyStr(WATSON_NOT_CONFIGURED)

\* C5: without a Hugging Face token call_hf_inference makes no network call
\* and returns a string containing "token not set"; with a token it makes
\* exactly one POST per invocation, whatever the outcome.
C5_TokenAndSingleAttempt ==
    invoked.hf > 0 =>
        /\ Missing(cfg.hf_token) =>
              /\ netlog = <<>>
              /\ pc \in {"call_hf_inference", "write", "done"}
              /\ Returned => result.k = "str" /\ IsSubstring(<<"t", "o", "k", "e", "n", " ", "n", "o", "t", " ", "s", "e", "t">>, result.s)
        /\ ~Missing(cfg.hf_token) =>
              /\ Len(netlog) <= 1
              /\ Returned => Ops = <<"hf_post">>

C5_Witness ==
    /\ pc = "done"
    /\ invoked.hf = 1
    /\ ~Missing(cfg.hf_token)
    /\ Ops = <<"hf_post">>
    /\ netlog[1].kind = "timeout"

IsTextEntry(e) ==
    e.k = "dict" /\ HasKey(e, RESPONSE_TYPE) /\ Lookup(e, RESPONSE_TYPE) = PyStr(TEXT)

\* a message response of the documented shape {output: {generic: [...]}},
\* every entry an object, every text of a text entry a string
WellShaped(o) ==
    /\ o.k = "dict" /\ HasKey(o, OUTPUT)
    /\ Lookup(o, OUTPUT).k = "dict" /\ HasKey(Lookup(o, OUTPUT), GENERIC)
    /\ LET g == Lookup(Lookup(o, OUTPUT), GENERIC)
       IN  /\ g.k = "list"
           /\ \A i \in 1..Len(g.items) :
                 /\ g.items[i].val.k = "dict"
                 /\ IsTextEntry(g.items[i].val) =>
                       /\ HasKey(g.items[i].val, TEXT)
                       /\ Lookup(g.items[i].val, TEXT).k = "str"

TextsOf(o) ==
    LET entries == Vals(Lookup(Lookup(o, OUTPUT), GENERIC))
        textEntries == SelectSeq(entries, IsTextEntry)
    IN  [i \in 1..Len(textEntries) |-> Lookup(textEntries[i], TEXT).s]

\* C6: after a successful message step the client returns the texts of the
\* text entries, in response order, joined by newline characters, or the
\* serialised response when there is no text entry.
C6_NewlineJoined ==
    Returned /\ Len(netlog) = 3 /\ WellShaped(out)
       => result = PyStr(IF TextsOf(out) # <<>> THEN Join(<<"\n">>, TextsOf(out))
                         ELSE json_dumps(out))

ClaimedGeneratedText(data) ==
    IF data.k = "list" /\ Len(data.items) > 0 /\ data.items[1].val.k = "dict"
       /\ HasKey(data.items[1].val, GENERATED_TEXT)
    THEN Lookup(data.items[1].val, GENERATED_TEXT)
    ELSE IF data.k = "dict" /\ HasKey(data, GENERATED_TEXT)
    THEN Lookup(data, GENERATED_TEXT)
    ELSE PyStr(json_dumps(data))

\* C7: for a successful response call_hf_inference returns generated_text of
\* the first element of a non-empty list, or of a single object, and the
\* serialised body for every other decoded body.
C7_GeneratedTextOrRawBody ==
    Returned /\ Ops = <<"hf_post">> /\ netlog[1].kind = "ok"
       => result = ClaimedGeneratedText(netlog[1].body)

\* C8: once the DELETE has been attempted, the value returned is the one the
\* message response alone determines, whatever the DELETE's outcome.
C8_DeleteOutcomeIgnored ==
    Returned /\ Len(netlog) = 3 /\ netlog[3].op = "delete"
       => result = except_Exception(watson_reply(netlog[2].body),
                                    WATSON_EXCEPTION_PREFIX).val

C8_Witness ==
    /\ pc = "done"
    /\ Len(netlog) = 3
    /\ netlog[3].op = "delete" /\ netlog[3].kind = "timeout"
    /\ result = PyStr(<<"a">>)

\* C9: discretionary is the unclamped remainder; for income > 0 and the
\* default 50%/20% the three amounts add up to the income (30000 gives
\* 15000.00, 6000.00, 9000.00); for income > 0 and fractions summing to more
\* than 100% discretionary is negative.  Amounts in hundredths of a rupee.
C9_BudgetSplit ==
    pc = "budget_done" =>
        /\ summary.essentials = income * essentials_pct
        /\ summary.savings = income * savings_pct
        /\ summary.discretionary = income * 100 - summary.essentials - summary.savings
        /\ income > 0 /\ essentials_pct = 50 /\ savings_pct = 20 =>
              summary.essentials + summary.savings + summary.discretionary = income * 100
        /\ income = 30000 /\ essentials_pct = 50 /\ savings_pct = 20 =>
              /\ summary.essentials = 1500000
              /\ summary.savings = 600000
              /\ summary.discretionary = 900000
        /\ income > 0 /\ essentials_pct + savings_pct > 100 => summary.discretionary < 0

C9_Witness ==
    /\ pc = "budget_done"
    /\ income = 30000 /\ essentials_pct = 50 /\ savings_pct = 20
    /\ summary.discretionary = 900000

\* C10 as stated: every click of "Get Answer" invokes exactly one client,
\* once: the one of the selected backend.
C10_EveryClickCallsOneClient ==
    pc = "done" =>
        /\ invoked.hf + invoked.watson = 1
        /\ invoked.hf = 1 <=> backend = BACKEND_GRANITE

\* C10 amended: a click with a question that is not blank invokes exactly
\* one client, once: the one of the selected backend; a click with an empty
\* or all-whitespace question invokes no client and shows a warning.
C10_OneClientPerAnsweredClick ==
    /\ invoked.hf + invoked.watson <= 1
    /\ pc \notin {"idle"} =>
        IF IsBlank(user_q)
        THEN invoked = NoneInvoked /\ pc = "done" /\ shown.warning
        ELSE /\ invoked.hf + invoked.watson = 1
             /\ invoked.hf = 1 <=> backend = BACKEND_GRANITE

C10_Witness ==
    /\ pc = "done"
    /\ ~IsBlank(user_q)
    /\ backend = BACKEND_WATSON
    /\ invoked = [hf |-> 0, watson |-> 1]
    /\ ~shown.warning

====
